---- MODULE Spec2Model ----
(***************************************************************************)
(* ResponsesService (webui, OpenAI Responses API client): one sendMessage  *)
(* request as a state machine.  The asynchronous function suspends at the  *)
(* awaits of the source (fetch, response.text(), reader.read()); each      *)
(* action below is one continuation, run to its next await or to the end   *)
(* of the request, as the single-threaded event loop runs it.              *)
(*                                                                         *)
(* Text is a sequence of characters, a network chunk a sequence of bytes.  *)
(* An ASCII byte and its character are the same one-letter string; the     *)
(* character "U00E9" is the two bytes "xC3" "xA9".  JSON documents are     *)
(* written over a reduced alphabet (StreamDocs, BodyDocs): JSON.parse is   *)
(* the lookup of a text in the table and a SyntaxError for any other text. *)
(* Callbacks are all supplied and do not throw; a callback may abort the   *)
(* request's signal synchronously.                                         *)
(*                                                                         *)
(* The pure functions of the service (convertMessagesToInput, the request  *)
(* body, convertUsageToTimings, parseErrorResponse) are operators; the     *)
(* specification SpecConverters applies each of them once to an argument   *)
(* drawn from its input set.                                               *)
(***************************************************************************)
EXTENDS Integers, Sequences, FiniteSets, TLC

VARIABLES
    pc,                   \* where sendMessage is suspended, or "done"
    streamOpt,            \* options.stream: "true", "false" or "undefined"
    payload,              \* the bytes of the response body the server sends
    sent,                 \* how many bytes of payload the reads have delivered
    aborted,              \* signal.aborted
    decoder,              \* TextDecoder: bytes of an incomplete character
    buffer,               \* handleStreamResponse: buffer
    aggregatedContent,    \* handleStreamResponse: aggregatedContent
    fullReasoningContent, \* handleStreamResponse: fullReasoningContent
    lastTimings,          \* handleStreamResponse: lastTimings (<<>> = undefined)
    modelEmitted,         \* handleStreamResponse: modelEmitted
    readerLocked,         \* the reader returned by getReader() holds the lock
    releases,             \* number of reader.releaseLock() calls
    calls,                \* the callbacks invoked so far, in order
    outcome,              \* sendMessage's promise: "pending", "resolved", "rejected"
    rejection,            \* <<error>> sendMessage rejected with, or <<>>
    exit,                 \* how the request ended ("" while it runs)
    requestBody,          \* the body of the POST request
    status,               \* response.status ("" before the headers arrive)
    parsedLines,          \* history: the lines handed to the line loop's body
    cuts,                 \* history: what a chunk boundary has fallen inside of
    abortedAt,            \* history: pc at which the signal was aborted
    callsAtAbort,         \* history: Len(calls) when the signal was aborted
    thrown,               \* history: <<value>> thrown inside sendMessage, or <<>>
    fn,                   \* the function under way: "sendMessage" or a converter
    args,                 \* the converter's argument
    result,               \* <<value>> the converter returned, or <<>>
    serverStore,          \* ServerStore: props, loading, error, role, fetchPromise
    propsRequests,        \* the PropsService.fetch() requests issued, in order
    fetchCalls,           \* the serverStore.fetch() calls made, in order
    clears                \* number of serverStore.clear() calls

vars == <<pc, streamOpt, payload, sent, aborted, decoder, buffer, aggregatedContent,
          fullReasoningContent, lastTimings, modelEmitted, readerLocked, releases,
          calls, outcome, rejection, exit, requestBody, status, parsedLines,
          cuts, abortedAt, callsAtAbort, thrown, fn, args, result,
          serverStore, propsRequests, fetchCalls, clears>>

\* The variables of a converter call.
converter == <<fn, args, result>>

\* The variables of the server store.
store == <<serverStore, propsRequests, fetchCalls, clears>>

\* ---------------------------------------------------------------- bounds
\* A callback of one read's continuation may abort the signal: which one.
MaxAbortIn == 3

\* ---------------------------------------------------------------- text helpers
None == <<>>
Some(x) == <<x>>

\* String.prototype.startsWith
StartsWith(s, prefix) ==
    /\ Len(s) >= Len(prefix)
    /\ SubSeq(s, 1, Len(prefix)) = prefix

\* String.prototype.slice(n)
Slice(s, n) == SubSeq(s, n + 1, Len(s))

Indices(s) == [i \in 1..Len(s) |-> i]

\* String.prototype.split('\n'): k newlines give k + 1 segments.
Split(s) ==
    LET IsNewline(i) == s[i] = "\n"
        nl == SelectSeq(Indices(s), IsNewline)
        k == Len(nl)
    IN  [j \in 1..(k + 1) |->
            SubSeq(s, IF j = 1 THEN 1 ELSE nl[j - 1] + 1,
                      IF j = k + 1 THEN Len(s) ELSE nl[j] - 1)]

\* ---------------------------------------------------------------- TextDecoder
LeadByte == "xC3"
ContByte == "xA9"
Replacement == "UFFFD"
TwoByteChar == "U00E9"

\* decode(value) without { stream: true }: every chunk is decoded on its own.
DecodeNoStream(pending, bytes) ==
    LET n == Len(bytes)
        Paired(i) == bytes[i] = ContByte /\ i > 1 /\ bytes[i - 1] = LeadByte
        Emits(i) == ~Paired(i)
        Char(i) == IF bytes[i] = LeadByte
                   THEN (IF i < n /\ bytes[i + 1] = ContByte THEN TwoByteChar ELSE Replacement)
                   ELSE IF bytes[i] = ContByte THEN Replacement
                   ELSE bytes[i]
        emitting == SelectSeq(Indices(bytes), Emits)
    IN  [text |-> [k \in 1..Len(emitting) |-> Char(emitting[k])], pending |-> <<>>]

\* new TextDecoder().decode(value, { stream: true }): UTF-8 decoding that keeps
\* the bytes of an incomplete character for the next call.  A lead byte and
\* the continuation byte after it are one character; a lead byte followed by
\* anything else, and a continuation byte without its lead byte, are U+FFFD;
\* a lead byte at the end of the chunk is kept.  The result is [text, pending].
Decode(pending, bytes) ==
    LET all == pending \o bytes
        n == Len(all)
        Paired(i) == all[i] = ContByte /\ i > 1 /\ all[i - 1] = LeadByte
        Held(i) == all[i] = LeadByte /\ i = n
        Emits(i) == ~Paired(i) /\ ~Held(i)
        Char(i) == IF all[i] = LeadByte
                   THEN (IF all[i + 1] = ContByte THEN TwoByteChar ELSE Replacement)
                   ELSE IF all[i] = ContByte THEN Replacement
                   ELSE all[i]
        emitting == SelectSeq(Indices(all), Emits)
    IN  [text |-> [k \in 1..Len(emitting) |-> Char(emitting[k])],
         pending |-> IF n > 0 /\ all[n] = LeadByte THEN <<LeadByte>> ELSE <<>>]

\* Decoding without the stream flag (response.text(), or decode(value)): an
\* incomplete character at the end becomes U+FFFD and nothing is kept.
DecodeAll(bytes) ==
    LET r == Decode(<<>>, bytes)
    IN  IF r.pending = <<>> THEN r.text ELSE Append(r.text, Replacement)

\* The UTF-8 encoding the server applies to the text it sends.
RECURSIVE Encode(_)
Encode(text) ==
    IF text = <<>> THEN <<>>
    ELSE (IF Head(text) = TwoByteChar THEN <<LeadByte, ContByte>> ELSE <<Head(text)>>)
         \o Encode(Tail(text))

\* ---------------------------------------------------------------- usage
\* A usage object; a field the JSON lacks is None.
Usage(inTok, outTok, details) ==
    [input_tokens |-> inTok, output_tokens |-> outTok, input_tokens_details |-> details]

OrZero(field) == IF field = None THEN 0 ELSE field[1]

\* The same without the cached tokens: cache_n is always 0.
TimingsWithoutCache(usage) ==
    [prompt_n    |-> IF usage.input_tokens = <<>> THEN 0 ELSE usage.input_tokens[1],
     predicted_n |-> IF usage.output_tokens = <<>> THEN 0 ELSE usage.output_tokens[1],
     cache_n     |-> 0]

convertUsageToTimings(usage) ==
    [prompt_n    |-> OrZero(usage.input_tokens),
     predicted_n |-> OrZero(usage.output_tokens),
     cache_n     |-> IF usage.input_tokens_details = None THEN 0
                     ELSE OrZero(usage.input_tokens_details[1].cached_tokens)]

UsageFull == Usage(Some(10), Some(5), Some([cached_tokens |-> Some(2)]))
UsagePartial == Usage(Some(7), None, None)

\* ---------------------------------------------------------------- stream events
TextDelta == "response.output_text.delta"
ReasoningDelta == "response.reasoning_summary_text.delta"
ToolDelta == "response.function_call_arguments.delta"
Completed == "response.completed"
Done == "response.done"
Created == "response.created"

\* The fields of a decoded data payload that the parser reads.  delta = <<>>
\* and model = "" stand for a missing or empty field (the code tests both by
\* truthiness); response and usage are None when missing.
Event(type, delta, model, response, usage) ==
    [type |-> type, delta |-> delta, model |-> model, response |-> response,
     usage |-> usage]

ResponseObj(usage, model) == [usage |-> usage, model |-> model]

\* The JSON documents of the model: text (after "data: ") and parsed value.
StreamDocs ==
    { [text  |-> <<"{", "C", "n", "}">>,
       value |-> Event(Created, <<>>, "model-n", None, None)],
      [text  |-> <<"{", "T", "a", "}">>,
       value |-> Event(TextDelta, <<"a">>, "", None, None)],
      [text  |-> <<"{", "T", TwoByteChar, "b", "}">>,
       value |-> Event(TextDelta, <<TwoByteChar, "b">>, "", None, None)],
      [text  |-> <<"{", "T", "c", "m", "}">>,
       value |-> Event(TextDelta, <<"c">>, "model-m", None, None)],
      [text  |-> <<"{", "T", "}">>,
       value |-> Event(TextDelta, <<>>, "", None, None)],
      [text  |-> <<"{", "R", "r", "}">>,
       value |-> Event(ReasoningDelta, <<"r">>, "", None, None)],
      [text  |-> <<"{", "R", "s", "}">>,
       value |-> Event(ReasoningDelta, <<"s">>, "", None, None)],
      [text  |-> <<"{", "F", "f", "}">>,
       value |-> Event(ToolDelta, <<"f">>, "", None, None)],
      [text  |-> <<"{", "K", "u", "M", "}">>,
       value |-> Event(Completed, <<>>, "",
                       Some(ResponseObj(Some(UsageFull), "model-M")), None)],
      [text  |-> <<"{", "K", "m", "u", "}">>,
       value |-> Event(Completed, <<>>, "model-m",
                       Some(ResponseObj(Some(UsageFull), "")), None)],
      [text  |-> <<"{", "K", "}">>,
       value |-> Event(Completed, <<>>, "", Some(ResponseObj(None, "")), None)],
      [text  |-> <<"{", "N", "v", "n", "}">>,
       value |-> Event(Done, <<>>, "model-n", None, Some(UsagePartial))] }

\* JSON.parse: <<value>>, or None for a SyntaxError.
JSONparse(text) ==
    LET hits == {d \in StreamDocs : d.text = text}
    IN  IF hits = {} THEN None ELSE Some((CHOOSE d \in hits : TRUE).value)

EventPrefix == <<"e", "v", "e", "n", "t", ":", " ">>
DataPrefix == <<"d", "a", "t", "a", ":", " ">>
DoneMarker == <<"[", "D", "O", "N", "E", "]">>

\* ---------------------------------------------------------------- callbacks
\* One callback invocation: which callback, and its arguments.
Call(cb, text, reasoning, timings, model, error) ==
    [cb |-> cb, text |-> text, reasoning |-> reasoning, timings |-> timings,
     model |-> model, error |-> error]

OnChunk(delta) == Call("onChunk", delta, None, None, "", None)
OnReasoningChunk(delta) == Call("onReasoningChunk", delta, None, None, "", None)
OnToolCallChunk(delta) == Call("onToolCallChunk", delta, None, None, "", None)
OnModel(model) == Call("onModel", <<>>, None, None, model, None)
OnTimings(timings) == Call("onTimings", <<>>, None, Some(timings), "", None)
OnComplete(text, reasoning, timings) ==
    Call("onComplete", text, IF reasoning = <<>> THEN None ELSE Some(reasoning),
         timings, "", None)
OnError(err) == Call("onError", <<>>, None, None, "", Some(err))

\* The state one read's continuation works on.  abortIn is the caller's part:
\* the number of the callback invocation, counted within this continuation,
\* during which the caller aborts the signal (0: none does).
\* Invoking a callback: the call is recorded, and the caller may abort in it.
Invoke(st, call) ==
    LET n == st.cbCount + 1
        abortsNow == ~st.aborted /\ n = st.abortIn
    IN  [st EXCEPT !.calls = Append(@, call),
                   !.cbCount = n,
                   !.aborted = @ \/ abortsNow,
                   !.abortedAt = IF abortsNow THEN "callback" ELSE @,
                   !.callsAtAbort = IF abortsNow THEN Len(st.calls) + 1 ELSE @]

\* The same without the modelEmitted flag.
EmitModelRepeatedly(st, model) ==
    IF model # "" THEN Invoke(st, OnModel(model)) ELSE st

\* if (model && !modelEmitted) { modelEmitted = true; onModel?.(model); }
EmitModel(st, model) ==
    IF model # "" /\ ~st.modelEmitted
    THEN Invoke([st EXCEPT !.modelEmitted = TRUE], OnModel(model))
    ELSE st

\* The same catch block, rethrowing.
RethrowParseError(st) ==
    [st EXCEPT !.thrown = Some([name |-> "SyntaxError",
                                message |-> <<"Unexpected", "token">>,
                                isError |-> TRUE])]

\* catch (e) { console.error(...) } of the line loop: the event is skipped.
OnParseError(st) == st

\* The same with aggregatedContent = delta, for +=.
TextDeltaEventOverwrites(st, ev) ==
    IF ev.type = TextDelta /\ ev.delta # <<>>
    THEN LET s == [st EXCEPT !.aggregatedContent = ev.delta]
         IN  IF ~s.aborted THEN Invoke(s, OnChunk(ev.delta)) ELSE s
    ELSE st

\* Lines 226-234: a text delta is aggregated, and delivered unless aborted.
TextDeltaEvent(st, ev) ==
    IF ev.type = TextDelta /\ ev.delta # <<>>
    THEN LET s == [st EXCEPT !.aggregatedContent = @ \o ev.delta]
         IN  IF ~s.aborted THEN Invoke(s, OnChunk(ev.delta)) ELSE s
    ELSE st

ReasoningDeltaEvent(st, ev) ==
    IF ev.type = ReasoningDelta /\ ev.delta # <<>>
    THEN LET s == [st EXCEPT !.fullReasoningContent = @ \o ev.delta]
         IN  IF ~s.aborted THEN Invoke(s, OnReasoningChunk(ev.delta)) ELSE s
    ELSE st

ToolDeltaEvent(st, ev) ==
    IF ev.type = ToolDelta /\ ev.delta # <<>> /\ ~st.aborted
    THEN Invoke(st, OnToolCallChunk(ev.delta))
    ELSE st

CompletedEvent(st, ev) ==
    IF ev.type = Completed \/ ev.type = Done
    THEN LET responseData == IF ev.response # None THEN ev.response[1]
                             ELSE ResponseObj(ev.usage, ev.model)
             s == IF responseData.usage # None
                  THEN LET t == convertUsageToTimings(responseData.usage[1])
                       IN  Invoke([st EXCEPT !.lastTimings = Some(t)], OnTimings(t))
                  ELSE st
         IN  EmitModel(s, responseData.model)
    ELSE st

\* The body of the try block for one parsed event.
HandleEvent(st, ev) ==
    CompletedEvent(
        ToolDeltaEvent(
            ReasoningDeltaEvent(
                TextDeltaEvent(EmitModel(st, ev.model), ev), ev), ev), ev)

\* The body of the line loop, after its cancellation check.
ProcessLine(st, line) ==
    IF StartsWith(line, EventPrefix) THEN st
    ELSE IF StartsWith(line, DataPrefix) THEN
        LET data == Slice(line, Len(DataPrefix))
        IN  IF data = DoneMarker THEN st
            ELSE IF JSONparse(data) = None THEN OnParseError(st)
            ELSE HandleEvent(st, JSONparse(data)[1])
    ELSE st

\* for (const line of lines) { if (abortSignal?.aborted) break; ... }
\* An exception leaving the loop body ends the loop too.
RECURSIVE ProcessLines(_, _)
ProcessLines(st, lines) ==
    IF lines = <<>> \/ st.aborted \/ st.thrown # None THEN st
    ELSE ProcessLines(
             ProcessLine([st EXCEPT !.parsedLines = Append(@, Head(lines))], Head(lines)),
             Tail(lines))

\* buffer = '', for the line below: the text after the last newline is lost.
DropRemainder(segments) == <<>>

\* buffer = lines.pop() || '': the segment after the last newline.
Remainder(segments) == segments[Len(segments)]

\* const lines = buffer.split('\n'), after lines.pop(): the complete lines.
CompleteLines(segments) == SubSeq(segments, 1, Len(segments) - 1)

\* ---------------------------------------------------------------- errors
\* A thrown value: message is its words; isError is `instanceof Error`.
Err(name, message, isError) == [name |-> name, message |-> message, isError |-> isError]

\* String.prototype.includes, on the words of a message
Includes(message, word) == \E i \in 1..Len(message) : message[i] = word

AbortError == Err("AbortError", <<"The", "operation", "was", "aborted">>, TRUE)
FetchTypeError == Err("TypeError", <<"Failed", "to", "fetch">>, TRUE)
StreamTypeError == Err("TypeError", <<"network", "error">>, TRUE)
RefusedError == Err("Error", <<"connect", "ECONNREFUSED">>, TRUE)
TimedOutError == Err("Error", <<"connect", "ETIMEDOUT">>, TRUE)
ThrownString == Err("", <<"thrown", "string">>, FALSE)
NoBodyError == Err("Error", <<"No", "response", "body">>, TRUE)
NoResponseError ==
    Err("Error", <<"No", "response", "received", "from", "server.", "Please", "try", "again.">>, TRUE)
SyntaxError == Err("SyntaxError", <<"Unexpected", "token">>, TRUE)

\* What fetch() can reject with, and what a read of the body can reject with.
FetchFailures == {FetchTypeError, RefusedError, TimedOutError, ThrownString}
ReadFailures == {StreamTypeError, ThrownString}

\* The catch block of sendMessage, without the AbortError test: the error
\* shown to the user.
userFriendlyError(error) ==
    IF error.isError THEN
        IF error.name = "TypeError" /\ Includes(error.message, "fetch")
        THEN Err("NetworkError",
                 <<"Unable", "to", "connect", "to", "server">>, TRUE)
        ELSE IF Includes(error.message, "ECONNREFUSED")
        THEN Err("NetworkError", <<"Connection", "refused">>, TRUE)
        ELSE IF Includes(error.message, "ETIMEDOUT")
        THEN Err("TimeoutError", <<"Request", "timed", "out">>, TRUE)
        ELSE error
    ELSE Err("Error", <<"Unknown", "error", "occurred", "while", "sending", "message">>, TRUE)

\* The catch block of sendMessage for a thrown `error`, after the callbacks
\* `cs`: the callbacks and the settlement of sendMessage's promise.
SendMessageCatch(cs, error) ==
    IF error.isError /\ error.name = "AbortError"
    THEN [calls |-> cs, outcome |-> "resolved", rejection |-> None]
    ELSE [calls |-> Append(cs, OnError(userFriendlyError(error))),
          outcome |-> "rejected",
          rejection |-> Some(userFriendlyError(error))]

\* return await: the rejection of the awaited promise enters the catch block.
AwaitedPromiseRejects(cs, error) == SendMessageCatch(cs, error)

\* A promise returned from the try block without await settles sendMessage's
\* promise directly: its rejection does not enter the catch block.
ReturnedPromiseRejects(cs, error) ==
    [calls |-> cs, outcome |-> "rejected", rejection |-> Some(error)]

\* ---------------------------------------------------------------- ServerStore
\* Of the two sides of the merge conflict left in fetch() (lines 62-162), the
\* model takes the `master` side, lines 160-161, which is the one the rest of
\* the class (props, loading, error, role, fetchPromise) belongs to.

\* Maximum number of serverStore.fetch() and serverStore.clear() calls.
MaxFetchCalls == 3
MaxClears == 1

\* The fields of a new ServerStore (lines 25-29); None is null.
InitialStore ==
    [props |-> None, loading |-> FALSE, error |-> None, role |-> None, fetchPromise |-> None]

NewStore ==
    /\ serverStore = InitialStore
    /\ propsRequests = <<>>
    /\ fetchCalls = <<>>
    /\ clears = 0

\* What PropsService.fetch() may resolve with: props of a router, of a single
\* model, and props without a role.
PropsValues == {[role |-> "ROUTER"], [role |-> "MODEL"], [role |-> ""]}

\* What PropsService.fetch() may reject with.
PropsFailures ==
    { FetchTypeError, RefusedError, TimedOutError, ThrownString,
      Err("Error", <<"getaddrinfo", "ENOTFOUND">>, TRUE),
      Err("Error", <<"HTTP", "503">>, TRUE),
      Err("Error", <<"HTTP", "500">>, TRUE),
      Err("Error", <<"HTTP", "404">>, TRUE),
      Err("Error", <<"HTTP", "403">>, TRUE),
      Err("Error", <<"HTTP", "401">>, TRUE),
      Err("Error", <<>>, TRUE) }

getErrorMessage(error) ==
    IF error.isError /\ error.name = "TypeError" /\ Includes(error.message, "fetch")
    THEN "Server is not running or unreachable"
    ELSE IF error.isError /\ Includes(error.message, "ECONNREFUSED")
    THEN "Connection refused - server may be offline"
    ELSE IF error.isError /\ Includes(error.message, "ENOTFOUND")
    THEN "Server not found - check server address"
    ELSE IF error.isError /\ Includes(error.message, "ETIMEDOUT")
    THEN "Request timed out"
    ELSE IF error.isError /\ Includes(error.message, "503")
    THEN "Server temporarily unavailable"
    ELSE IF error.isError /\ Includes(error.message, "500")
    THEN "Server error - check server logs"
    ELSE IF error.isError /\ Includes(error.message, "404")
    THEN "Server endpoint not found"
    ELSE IF error.isError /\ (Includes(error.message, "403") \/ Includes(error.message, "401"))
    THEN "Access denied"
    ELSE "Failed to connect to server"

\* detectRole: the role the props give the store.
detectRole(st, props) ==
    LET newRole == IF props.role = "ROUTER" THEN "ROUTER" ELSE "MODEL"
    IN  IF st.role # Some(newRole) THEN [st EXCEPT !.role = Some(newRole)] ELSE st

\* The finally block that leaves fetchPromise as it is.
FinallyKeepsPromise(st) == [st EXCEPT !.loading = FALSE]

\* finally { this.loading = false; this.fetchPromise = null; }
Finally(st) == [st EXCEPT !.loading = FALSE, !.fetchPromise = None]

\* Lines 166-169 and the finally block: PropsService.fetch() resolved.
PropsFetched(st, props) ==
    Finally(detectRole([st EXCEPT !.props = Some(props), !.error = None], props))

\* Lines 170-172 and the finally block: PropsService.fetch() rejected.
PropsFailed(st, error) == Finally([st EXCEPT !.error = Some(getErrorMessage(error))])

\* The catch block logs the error and ends without throwing it again, so the
\* promise of the request is fulfilled.
Caught(error) == "fulfilled"

\* fetch() without the test of line 60: every call issues a request.
IssuesAlways(st) == TRUE

\* if (this.fetchPromise) return this.fetchPromise: the call issues a request
\* only when none is remembered.
IssuesRequest(st) == st.fetchPromise = None

\* Lines 160-161 and 179, for the request with the number id.
RequestIssued(st, id) == [st EXCEPT !.loading = TRUE, !.error = None, !.fetchPromise = Some(id)]

\* Lines 210-214
Cleared(st) ==
    [st EXCEPT !.props = None, !.error = None, !.loading = FALSE, !.role = None,
               !.fetchPromise = None]

\* ---------------------------------------------------------------- handleStreamResponse
\* releaseLock() at the end of the try block, for the finally block.
ReleaseOnlyOnCompletion(how) == how = "complete"

\* finally { reader.releaseLock(); }: runs however the try block is left.
ReleasesOnExit(how) == TRUE

\* catch (error) { const err = ...; onError?.(err); throw err; }
StreamCatchError(error) == IF error.isError THEN error ELSE Err("Error", <<"Stream", "error">>, TRUE)

\* The local state of handleStreamResponse, for one continuation.
StreamState(abortIn) ==
    [aggregatedContent |-> aggregatedContent,
     fullReasoningContent |-> fullReasoningContent,
     lastTimings |-> lastTimings,
     modelEmitted |-> modelEmitted,
     aborted |-> aborted,
     calls |-> calls,
     parsedLines |-> parsedLines,
     abortedAt |-> abortedAt,
     callsAtAbort |-> callsAtAbort,
     cbCount |-> 0,
     abortIn |-> abortIn,
     thrown |-> None]

\* The variables of the request take the values of the record r.
Assign(r) ==
    /\ pc' = r.pc
    /\ decoder' = r.decoder
    /\ buffer' = r.buffer
    /\ aggregatedContent' = r.aggregatedContent
    /\ fullReasoningContent' = r.fullReasoningContent
    /\ lastTimings' = r.lastTimings
    /\ modelEmitted' = r.modelEmitted
    /\ aborted' = r.aborted
    /\ calls' = r.calls
    /\ parsedLines' = r.parsedLines
    /\ abortedAt' = r.abortedAt
    /\ callsAtAbort' = r.callsAtAbort
    /\ readerLocked' = r.readerLocked
    /\ releases' = r.releases
    /\ outcome' = r.outcome
    /\ rejection' = r.rejection
    /\ exit' = r.exit
    /\ cuts' = r.cuts

\* The request as it stands, with the stream state st written back.
Running(st) ==
    [pc |-> pc, decoder |-> decoder, buffer |-> buffer,
     aggregatedContent |-> st.aggregatedContent,
     fullReasoningContent |-> st.fullReasoningContent,
     lastTimings |-> st.lastTimings,
     modelEmitted |-> st.modelEmitted,
     aborted |-> st.aborted,
     calls |-> st.calls,
     parsedLines |-> st.parsedLines,
     abortedAt |-> st.abortedAt,
     callsAtAbort |-> st.callsAtAbort,
     readerLocked |-> readerLocked, releases |-> releases,
     outcome |-> outcome, rejection |-> rejection, exit |-> exit, cuts |-> cuts]

\* handleStreamResponse returns (after the loop, or at its `return`) and
\* sendMessage returns after it.
StreamReturns(r, how) ==
    [r EXCEPT !.pc = "done",
              !.readerLocked = IF ReleasesOnExit(how) THEN FALSE ELSE @,
              !.releases = IF ReleasesOnExit(how) THEN @ + 1 ELSE @,
              !.outcome = "resolved",
              !.exit = how]

\* An exception inside the try block of handleStreamResponse: its catch, its
\* finally, then the catch of sendMessage.
StreamThrows(r, error, how) ==
    LET err == StreamCatchError(error)
        c == SendMessageCatch(Append(r.calls, OnError(err)), err)
    IN  [r EXCEPT !.pc = "done",
                  !.readerLocked = IF ReleasesOnExit(how) THEN FALSE ELSE @,
                  !.releases = IF ReleasesOnExit(how) THEN @ + 1 ELSE @,
                  !.calls = c.calls,
                  !.outcome = c.outcome,
                  !.rejection = c.rejection,
                  !.exit = how]

\* The text left in the buffer is handled as a last line when the stream ends.
FlushAtDone(st, rest) == IF rest = <<>> THEN st ELSE ProcessLines(st, <<rest>>)

\* if (done) break: the text left in the buffer is not looked at.
BreakAtDone(st, rest) == st

\* The same without `if (abortSignal?.aborted) return`.
AfterLoopCompletesAlways(r) ==
    [r EXCEPT !.pc = "done",
              !.readerLocked = FALSE,
              !.releases = @ + 1,
              !.outcome = "resolved",
              !.exit = "complete",
              !.calls = Append(@, [cb |-> "onComplete", text |-> r.aggregatedContent,
                                   reasoning |-> IF r.fullReasoningContent = <<>> THEN <<>>
                                                 ELSE <<r.fullReasoningContent>>,
                                   timings |-> r.lastTimings, model |-> "", error |-> <<>>])]

\* Lines 273-275: after the loop.
AfterLoop(r) ==
    IF r.aborted THEN StreamReturns(r, "cancelled")
    ELSE StreamReturns(
             [r EXCEPT !.calls = Append(@, OnComplete(r.aggregatedContent,
                                                      r.fullReasoningContent,
                                                      r.lastTimings))],
             "complete")

\* Lines 193-195: the top of the loop; the next read is awaited unless the
\* signal is aborted.
LoopTop(r) == IF r.aborted THEN AfterLoop(r) ELSE [r EXCEPT !.pc = "read"]

\* History only: what the end of this chunk has cut in two: "char" a
\* character, "payload" the JSON text of a data line, "line" any line.
CutsOf(pending, segments) ==
    LET last == segments[Len(segments)]
    IN  (IF pending # <<>> THEN {"char"} ELSE {})
        \cup (IF last # <<>> THEN {"line"} ELSE {})
        \cup (IF StartsWith(last, DataPrefix) /\ Len(last) > Len(DataPrefix)
              THEN {"payload"} ELSE {})

\* Lines 198-270: the continuation of a read that delivered `chunk`.
ChunkRead(chunk, abortIn) ==
    IF aborted THEN AfterLoop(Running(StreamState(abortIn)))
    ELSE LET d == Decode(decoder, chunk)
             segments == Split(buffer \o d.text)
             st == ProcessLines(StreamState(abortIn), CompleteLines(segments))
             r == [Running(st) EXCEPT !.decoder = d.pending,
                                      !.buffer = Remainder(segments),
                                      !.cuts = @ \cup CutsOf(d.pending, segments)]
         IN  IF st.thrown # None THEN StreamThrows(r, st.thrown[1], "loopError")
             ELSE LoopTop(r)

\* ---------------------------------------------------------------- handleNonStreamResponse
IsSpace(c) == c = " " \/ c = "\n"

\* String.prototype.trim
RECURSIVE TrimStart(_)
TrimStart(s) == IF s # <<>> /\ IsSpace(Head(s)) THEN TrimStart(Tail(s)) ELSE s

RECURSIVE TrimEnd(_)
TrimEnd(s) ==
    IF s # <<>> /\ IsSpace(s[Len(s)]) THEN TrimEnd(SubSeq(s, 1, Len(s) - 1)) ELSE s

Trim(s) == TrimEnd(TrimStart(s))

ContentItem(type, text) == [type |-> type, text |-> text]
OutputItem(type, content) == [type |-> type, content |-> content]
Body(model, output, usage) == [model |-> model, output |-> output, usage |-> usage]

\* The JSON documents a non-streaming response may carry: text and value.
\* output = None stands for a missing `output`.
BodyDocs ==
    { [text  |-> <<"{", "O", "h", "i", "}">>,
       value |-> Body("model-n",
                      Some(<<OutputItem("message", <<ContentItem("output_text", <<"h">>),
                                                    ContentItem("output_text", <<"i">>)>>)>>),
                      Some(UsageFull))],
      [text  |-> <<"{", "O", "r", "k", "}">>,
       value |-> Body("",
                      Some(<<OutputItem("reasoning",
                                        <<ContentItem("reasoning_summary_text", <<"r">>)>>),
                             OutputItem("message", <<ContentItem("output_text", <<"k">>)>>)>>),
                      None)],
      [text  |-> <<"{", "O", "r", "}">>,
       value |-> Body("model-m",
                      Some(<<OutputItem("reasoning",
                                        <<ContentItem("reasoning_summary_text", <<"r">>)>>)>>),
                      Some(UsagePartial))],
      [text  |-> <<"{", "O", "_", "}">>,
       value |-> Body("", Some(<<OutputItem("message", <<ContentItem("output_text", <<" ">>),
                                                        ContentItem("refusal", <<"x">>)>>)>>),
                      None)],
      [text  |-> <<"{", "}">>,
       value |-> Body("", None, None)] }

BodyParse(text) ==
    LET hits == {d \in BodyDocs : d.text = text}
    IN  IF hits = {} THEN None ELSE Some((CHOOSE d \in hits : TRUE).value)

\* The text of the content items of type `ctype` in the output items of type
\* `itype`, concatenated in order.
RECURSIVE ItemText(_, _)
ItemText(content, ctype) ==
    IF content = <<>> THEN <<>>
    ELSE (IF Head(content).type = ctype THEN Head(content).text ELSE <<>>)
         \o ItemText(Tail(content), ctype)

RECURSIVE OutputText(_, _, _)
OutputText(output, itype, ctype) ==
    IF output = <<>> THEN <<>>
    ELSE (IF Head(output).type = itype THEN ItemText(Head(output).content, ctype) ELSE <<>>)
         \o OutputText(Tail(output), itype, ctype)

\* catch (error) { const err = ...; onError?.(err); throw err; }
NonStreamThrows(cs, error, how) ==
    LET err == IF error.isError THEN error ELSE Err("Error", <<"Parse", "error">>, TRUE)
        p == ReturnedPromiseRejects(Append(cs, OnError(err)), err)
    IN  [calls |-> p.calls, outcome |-> p.outcome, rejection |-> p.rejection, exit |-> how]

\* Lines 303-345: the continuation of response.text() resolving with
\* responseText, after the callbacks cs.
NonStreamBody(cs, responseText) ==
    IF Trim(responseText) = <<>> THEN NonStreamThrows(cs, NoResponseError, "noContent")
    ELSE IF BodyParse(responseText) = None THEN NonStreamThrows(cs, SyntaxError, "bodyParseError")
    ELSE LET data == BodyParse(responseText)[1]
             cs1 == IF data.model # "" THEN Append(cs, OnModel(data.model)) ELSE cs
             output == IF data.output = None THEN <<>> ELSE data.output[1]
             content == OutputText(output, "message", "output_text")
             reasoningContent == OutputText(output, "reasoning", "reasoning_summary_text")
             timings == IF data.usage # None THEN Some(convertUsageToTimings(data.usage[1]))
                        ELSE None
         IN  IF Trim(content) = <<>> THEN NonStreamThrows(cs1, NoResponseError, "noContent")
             ELSE [calls |-> Append(cs1, OnComplete(content, reasoningContent, timings)),
                   outcome |-> "resolved", rejection |-> None, exit |-> "bodyComplete"]

\* ---------------------------------------------------------------- parseErrorResponse
\* The bodies an error response may carry: JSON with a non-empty
\* error.message, with an empty one, without one; JSON null; text that is no
\* JSON; "unreadable": response.text() rejects.
ErrorBodies == {"message", "empty-message", "no-message", "null", "not-json", "unreadable"}

StatusText(st) == IF st = "400" THEN "Bad Request" ELSE "Internal Server Error"

\* errorData.error?.message, for the bodies that are a JSON object (<<>>
\* also when it is missing)
ErrorMessageField(body) == IF body = "message" THEN <<"model", "not", "found">> ELSE <<>>

\* The same with error.name = 'HttpError' for every status.
ParseErrorWithoutStatus(st, body) ==
    [name |-> "HttpError",
     message |-> IF body = "message" THEN <<"model", "not", "found">>
                 ELSE IF body \in {"empty-message", "no-message"}
                 THEN <<"Unknown", "server", "error">>
                 ELSE <<"Server", "error", st, StatusText(st)>>,
     isError |-> TRUE]

\* Reading .error of null throws inside the try block, as JSON.parse does for
\* text that is no JSON and response.text() when it rejects.
parseErrorResponse(st, body) ==
    IF body \in {"message", "empty-message", "no-message"}
    THEN Err(IF st = "400" THEN "ServerError" ELSE "HttpError",
             IF ErrorMessageField(body) # <<>> THEN ErrorMessageField(body)
             ELSE <<"Unknown", "server", "error">>, TRUE)
    ELSE Err("HttpError", <<"Server", "error", st, StatusText(st)>>, TRUE)

\* ---------------------------------------------------------------- what the server sends
\* A data line with the JSON text `doc`, UTF-8 encoded.
DataLine(doc) == Encode(DataPrefix \o doc)

MalformedLine == DataLine(<<"{", "T", "a">>)

\* The lines, each ended by a newline, then `rest` without one.
RECURSIVE JoinLines(_, _)
JoinLines(lines, rest) ==
    IF lines = <<>> THEN rest ELSE Head(lines) \o <<"\n">> \o JoinLines(Tail(lines), rest)

StreamPayloads ==
    { \* an SSE stream: created, two deltas around a malformed line, completed
      JoinLines(<<EventPrefix \o <<"x">>,
                  DataLine(<<"{", "C", "n", "}">>),
                  <<>>,
                  DataLine(<<"{", "T", "a", "}">>),
                  MalformedLine,
                  DataLine(<<"{", "T", TwoByteChar, "b", "}">>),
                  DataLine(<<"{", "K", "u", "M", "}">>),
                  DataLine(DoneMarker)>>, <<>>),
      \* models on several events, reasoning and tool deltas, usage on done,
      \* and a last delta that lacks its newline
      JoinLines(<<DataLine(<<"{", "T", "c", "m", "}">>),
                  DataLine(<<"{", "R", "r", "}">>),
                  DataLine(<<"{", "F", "f", "}">>),
                  DataLine(<<"{", "R", "s", "}">>),
                  DataLine(<<"{", "N", "v", "n", "}">>)>>,
                DataLine(<<"{", "T", "a", "}">>)),
      \* a completed event with a top-level model and usage, then more
      JoinLines(<<DataLine(<<"{", "K", "m", "u", "}">>),
                  DataLine(<<"{", "T", "}">>),
                  DataLine(<<"{", "T", "a", "}">>),
                  DataLine(<<"{", "K", "}">>)>>, <<>>),
      \* nothing but malformed lines and an empty delta
      JoinLines(<<MalformedLine, DataLine(<<"{", "T", "}">>), <<"p", "i", "n", "g">>>>, <<>>),
      <<>> }

BodyTexts ==
    {d.text : d \in BodyDocs} \cup {<<>>, <<" ", "\n">>, <<"<", "h", "t", "m", "l", ">">>}

BodyPayloads == {Encode(t) : t \in BodyTexts}

\* ---------------------------------------------------------------- convertMessagesToInput
\* Maximum number of messages in a conversation handed to the converter.
MaxMessages == 2

\* String.prototype.includes, on the characters of a string
IncludesText(s, sub) ==
    \E i \in 0..(Len(s) - Len(sub)) : SubSeq(s, i + 1, i + Len(sub)) = sub

\* An attachment of a conversation record (DatabaseMessageExtra).  A field its
\* type does not have is empty; images = None is a missing `images`.
Extra(type, name, content, base64Url, base64Data, mimeType, processedAsImages, images) ==
    [type |-> type, name |-> name, content |-> content, base64Url |-> base64Url,
     base64Data |-> base64Data, mimeType |-> mimeType,
     processedAsImages |-> processedAsImages, images |-> images]

\* A part of a wire message.  An input_audio part carries data and format
\* (its input_audio object); the other fields are empty for it.
Part(type, text, image_url, data, format) ==
    [type |-> type, text |-> text, image_url |-> image_url, data |-> data,
     format |-> format]

\* A conversation record (it has id, convId and timestamp): extra is missing
\* when hasExtra is FALSE.
DbMessage(role, content, hasExtra, extra) ==
    [isDb |-> TRUE, role |-> role, isString |-> TRUE, content |-> content,
     hasExtra |-> hasExtra, extra |-> extra, parts |-> <<>>]

\* An API-shaped message: content is a string (isString) or the array parts.
ApiMessage(role, isString, content, parts) ==
    [isDb |-> FALSE, role |-> role, isString |-> isString, content |-> content,
     hasExtra |-> FALSE, extra |-> <<>>, parts |-> parts]

\* A wire message: content is the bare string text, or the array parts.
Wire(role, isString, text, parts) ==
    [role |-> role, isString |-> isString, text |-> text, parts |-> parts]

\* The format test with equality for includes(): only "audio/wav" is wav.
AudioFormatExact(mimeType) ==
    IF mimeType = <<"a", "u", "d", "i", "o", "/", "w", "a", "v">> THEN "wav" ELSE "mp3"

\* audioExtra.mimeType.includes('wav') ? 'wav' : 'mp3'
AudioFormat(mimeType) == IF IncludesText(mimeType, <<"w", "a", "v">>) THEN "wav" ELSE "mp3"

\* `\n\n--- File: ${name} ---\n${content}`
FileBanner(name, content) == <<"\n", "\n", "--- File: ">> \o name \o <<" ---", "\n">> \o content

\* `\n\n--- PDF File: ${name} ---\n${content}`
PdfBanner(name, content) ==
    <<"\n", "\n", "--- PDF File: ">> \o name \o <<" ---", "\n">> \o content

\* The body of the loop over message.extra: the parts pushed for one extra.
\* An array, the empty one too, is truthy in `processedAsImages && images`.
ExtraParts(extra) ==
    IF extra.type = "IMAGE"
    THEN <<Part("input_image", <<>>, extra.base64Url, "", "")>>
    ELSE IF extra.type = "TEXT" \/ extra.type = "LEGACY_CONTEXT"
    THEN <<Part("input_text", FileBanner(extra.name, extra.content), "", "", "")>>
    ELSE IF extra.type = "AUDIO"
    THEN <<Part("input_audio", <<>>, "", extra.base64Data, AudioFormat(extra.mimeType))>>
    ELSE IF extra.type = "PDF"
    THEN IF extra.processedAsImages /\ extra.images # None
         THEN [i \in 1..Len(extra.images[1]) |->
                  Part("input_image", <<>>, extra.images[1][i], "", "")]
         ELSE <<Part("input_text", PdfBanner(extra.name, extra.content), "", "", "")>>
    ELSE <<>>

RECURSIVE AllExtraParts(_)
AllExtraParts(extras) ==
    IF extras = <<>> THEN <<>> ELSE ExtraParts(Head(extras)) \o AllExtraParts(Tail(extras))

convertExtrasToContent(message) ==
    (IF message.content # <<>>
     THEN <<Part("input_text", message.content, "", "", "")>> ELSE <<>>)
    \o (IF ~message.hasExtra THEN <<>> ELSE AllExtraParts(message.extra))

\* An API content part: text, image_url.url and the input_audio fields; a
\* missing field is empty.
ApiPart(type, text, url, data, format) ==
    [type |-> type, text |-> text, url |-> url, data |-> data, format |-> format]

ApiPartToWire(part) ==
    IF part.type = "text" THEN Part("input_text", part.text, "", "", "")
    ELSE IF part.type = "image_url" THEN Part("input_image", <<>>, part.url, "", "")
    ELSE IF part.type = "input_audio"
    THEN Part("input_audio", <<>>, "", part.data, IF part.format = "" THEN "wav" ELSE part.format)
    ELSE Part("input_text", <<>>, "", "", "")

convertApiContentParts(parts) == [i \in 1..Len(parts) |-> ApiPartToWire(parts[i])]

\* role === 'system' ? 'developer' : role
WireRole(role) == IF role = "system" THEN "developer" ELSE role

\* !dbMsg.extra: the length of the array is not tested, [] goes to the parts.
ExtraIsMissing(msg) == ~msg.hasExtra

\* !dbMsg.extra || dbMsg.extra.length === 0
HasNoExtra(msg) == ~msg.hasExtra \/ Len(msg.extra) = 0

\* Lines 388-419: the role and content of one message.
ConvertMessage(msg) ==
    IF msg.isDb
    THEN IF HasNoExtra(msg)
         THEN Wire(WireRole(msg.role), TRUE, msg.content, <<>>)
         ELSE Wire(WireRole(msg.role), FALSE, <<>>, convertExtrasToContent(msg))
    ELSE IF msg.isString
         THEN Wire(WireRole(msg.role), TRUE, msg.content, <<>>)
         ELSE Wire(WireRole(msg.role), FALSE, <<>>, convertApiContentParts(msg.parts))

\* No message is skipped.
SkipsNothing(wire) == FALSE

\* if (role === 'developer' && typeof content === 'string' && !content.trim()) continue
SkipsEmptyDeveloper(wire) ==
    wire.role = "developer" /\ wire.isString /\ Trim(wire.text) = <<>>

RECURSIVE convertMessagesToInput(_)
convertMessagesToInput(messages) ==
    IF messages = <<>> THEN <<>>
    ELSE LET wire == ConvertMessage(Head(messages))
         IN  (IF SkipsEmptyDeveloper(wire) THEN <<>> ELSE <<wire>>)
             \o convertMessagesToInput(Tail(messages))

\* ---------------------------------------------------------------- converter inputs
WavMime == <<"a", "u", "d", "i", "o", "/", "w", "a", "v">>
XWavMime == <<"a", "u", "d", "i", "o", "/", "x", "-", "w", "a", "v">>
MpegMime == <<"a", "u", "d", "i", "o", "/", "m", "p", "e", "g">>
OggMime == <<"a", "u", "d", "i", "o", "/", "o", "g", "g">>

ImageExtra == Extra("IMAGE", <<"a.png">>, <<>>, "data:image/png", "", <<>>, FALSE, None)
TextExtra == Extra("TEXT", <<"a.txt">>, <<"t">>, "", "", <<>>, FALSE, None)
LegacyExtra == Extra("LEGACY_CONTEXT", <<"ctx">>, <<"c">>, "", "", <<>>, FALSE, None)
AudioExtra(mimeType) == Extra("AUDIO", <<"a.snd">>, <<>>, "", "UklGRg", mimeType, FALSE, None)
PdfExtra(processedAsImages, images) ==
    Extra("PDF", <<"a.pdf">>, <<"p">>, "", "", <<>>, processedAsImages, images)

\* The attachment lists of the sample records: every type, every MIME type,
\* and a PDF with and without page images, with the flag set and unset.
ExtraLists ==
    { <<>>,
      <<ImageExtra>>,
      <<TextExtra, LegacyExtra>>,
      <<AudioExtra(WavMime), AudioExtra(XWavMime)>>,
      <<AudioExtra(MpegMime), AudioExtra(OggMime)>>,
      <<PdfExtra(TRUE, Some(<<"page-1", "page-2">>)), ImageExtra>>,
      <<PdfExtra(FALSE, None), PdfExtra(TRUE, None)>>,
      <<PdfExtra(FALSE, Some(<<"page-1">>))>>,
      <<ImageExtra, PdfExtra(TRUE, Some(<<>>))>> }

ApiParts ==
    <<ApiPart("text", <<"h">>, "", "", ""), ApiPart("image_url", <<>>, "data:image/png", "", ""),
      ApiPart("input_audio", <<>>, "", "UklGRg", ""), ApiPart("input_audio", <<>>, "", "SUQz", "mp3"),
      ApiPart("video", <<>>, "", "", "")>>

\* The messages a conversation is drawn from.
Messages ==
    { DbMessage("user", content, TRUE, extra) :
          content \in {<<>>, <<"h", "i">>}, extra \in ExtraLists }
    \cup { DbMessage("system", <<>>, TRUE, extra) : extra \in {<<>>, <<ImageExtra>>} }
    \cup { DbMessage("system", content, FALSE, <<>>) :
               content \in {<<>>, <<" ", "\n">>, <<"h", "i">>} }
    \cup { DbMessage("user", <<"h", "i">>, FALSE, <<>>), DbMessage("assistant", <<>>, FALSE, <<>>) }
    \cup { ApiMessage(role, TRUE, content, <<>>) :
               role \in {"system", "developer"}, content \in {<<>>, <<" ">>} }
    \cup { ApiMessage("user", TRUE, <<"h">>, <<>>) }
    \cup { ApiMessage(role, FALSE, <<>>, parts) :
               role \in {"system", "user"}, parts \in {<<>>, ApiParts} }

RECURSIVE SeqsUpTo(_, _)
SeqsUpTo(S, n) ==
    IF n = 0 THEN {<<>>}
    ELSE SeqsUpTo(S, n - 1) \cup {Append(s, x) : s \in {t \in SeqsUpTo(S, n - 1) : Len(t) = n - 1}, x \in S}

Conversations == SeqsUpTo(Messages, MaxMessages)

\* ---------------------------------------------------------------- sendMessage
\* if (stream): options.stream as a condition
Truthy(opt) == opt = "true"

\* stream: stream ?? true
StreamField(opt) == IF opt = "undefined" THEN TRUE ELSE opt = "true"

\* ---------------------------------------------------------------- the request body
\* requestBody.key = value
Put(body, key, value) ==
    [k \in DOMAIN body \cup {key} |-> IF k = key THEN value ELSE body[k]]

\* The merge with the arguments exchanged: a computed field wins.
AssignUnder(target, source) ==
    [k \in DOMAIN target \cup DOMAIN source |->
        IF k \in DOMAIN target THEN target[k] ELSE source[k]]

\* Object.assign(target, source)
ObjectAssign(target, source) ==
    [k \in DOMAIN target \cup DOMAIN source |->
        IF k \in DOMAIN source THEN source[k] ELSE target[k]]

\* An object with no property
EmptyObject == [k \in {} |-> 0]

\* options.max_tokens: undefined, null or a number
MaxTokens(kind, n) == [kind |-> kind, n |-> n]

\* options.custom: missing ("none"), a string or an object
Custom(form, text, value) == [form |-> form, text |-> text, value |-> value]

\* The JSON texts a custom string may hold and their values; a value that is
\* no object has no property to assign.
CustomDocs ==
    { [text |-> <<"{", "s", "}">>, value |-> [stream |-> FALSE, store |-> TRUE]],
      [text |-> <<"{", "i", "}">>, value |-> [input |-> <<>>, seed |-> 7]],
      [text |-> <<"5">>, value |-> EmptyObject] }

CustomParse(text) ==
    LET hits == {d \in CustomDocs : d.text = text}
    IN  IF hits = {} THEN None ELSE Some((CHOOSE d \in hits : TRUE).value)

\* Lines 69-80: the custom parameters to merge; none when custom is falsy or
\* JSON.parse throws (the catch only warns).
customParams(custom) ==
    IF custom.form = "none" THEN EmptyObject
    ELSE IF custom.form = "string"
    THEN IF custom.text = <<>> \/ CustomParse(custom.text) = None THEN EmptyObject
         ELSE CustomParse(custom.text)[1]
    ELSE custom.value

Options(stream, model, temperature, max_tokens, top_p, disableReasoningFormat, custom) ==
    [stream |-> stream, model |-> model, temperature |-> temperature,
     max_tokens |-> max_tokens, top_p |-> top_p,
     disableReasoningFormat |-> disableReasoningFormat, custom |-> custom]

\* The options of a caller that sets nothing but stream.
StreamOnly(stream) ==
    Options(stream, "", None, MaxTokens("undefined", 0), None, FALSE,
            Custom("none", <<>>, EmptyObject))

\* Lines 52-80, as JSON.stringify sends the body: a property whose value is
\* undefined (max_output_tokens for max_tokens null or 0) is not sent.
BuildRequestBody(messages, options) ==
    LET b0 == [input |-> convertMessagesToInput(messages),
               stream |-> StreamField(options.stream), store |-> FALSE]
        b1 == IF options.model # "" THEN Put(b0, "model", options.model) ELSE b0
        b2 == IF options.temperature # None
              THEN Put(b1, "temperature", options.temperature[1]) ELSE b1
        b3 == IF options.max_tokens.kind = "number" /\ options.max_tokens.n # 0
              THEN Put(b2, "max_output_tokens", options.max_tokens.n) ELSE b2
        b4 == IF options.top_p # None THEN Put(b3, "top_p", options.top_p[1]) ELSE b3
        b5 == IF ~options.disableReasoningFormat
              THEN Put(b4, "reasoning", [effort |-> "medium"]) ELSE b4
    IN  ObjectAssign(b5, customParams(options.custom))

\* What a caller may pass as custom.
Customs ==
    { Custom("none", <<>>, EmptyObject),
      Custom("string", <<>>, EmptyObject),
      Custom("string", <<"{", "s">>, EmptyObject),
      Custom("object", <<>>,
             [model |-> "custom-model", temperature |-> 9, max_output_tokens |-> 99,
              top_p |-> 8, reasoning |-> [effort |-> "high"]]),
      Custom("object", <<>>, [stream |-> TRUE, store |-> TRUE]) }
    \cup { Custom("string", d.text, EmptyObject) : d \in CustomDocs }

OptionsSet ==
    { Options(stream, model, temperature, max_tokens, top_p, disableReasoningFormat, custom) :
          stream \in {"true", "false", "undefined"},
          model \in {"", "model-a"},
          temperature \in {None, Some(1)},
          max_tokens \in {MaxTokens("undefined", 0), MaxTokens("null", 0),
                          MaxTokens("number", 0), MaxTokens("number", 64)},
          top_p \in {None, Some(1)},
          disableReasoningFormat \in BOOLEAN,
          custom \in Customs }

\* The conversation of the request.
RequestMessages == <<DbMessage("system", <<>>, FALSE, <<>>), DbMessage("user", <<"h", "i">>, FALSE, <<>>)>>

\* A server that is asked for a stream (requestBody.stream) may answer with
\* one, whichever handler the client then runs.
Init ==
    /\ pc = "fetch"
    /\ streamOpt \in {"true", "false", "undefined"}
    /\ requestBody = BuildRequestBody(RequestMessages, StreamOnly(streamOpt))
    /\ payload \in (IF Truthy(streamOpt) THEN StreamPayloads
                    ELSE IF requestBody.stream THEN BodyPayloads \cup StreamPayloads
                    ELSE BodyPayloads)
    /\ sent = 0
    /\ aborted = FALSE
    /\ decoder = <<>>
    /\ buffer = <<>>
    /\ aggregatedContent = <<>>
    /\ fullReasoningContent = <<>>
    /\ lastTimings = None
    /\ modelEmitted = FALSE
    /\ readerLocked = FALSE
    /\ releases = 0
    /\ calls = <<>>
    /\ outcome = "pending"
    /\ rejection = None
    /\ exit = ""
    /\ status = ""
    /\ parsedLines = <<>>
    /\ cuts = {}
    /\ abortedAt = ""
    /\ callsAtAbort = 0
    /\ thrown = None
    /\ fn = "sendMessage"
    /\ args = <<>>
    /\ result = None
    /\ NewStore

\* The caller aborts the signal while sendMessage is suspended.
Abort ==
    /\ pc # "done"
    /\ ~aborted
    /\ aborted' = TRUE
    /\ abortedAt' = pc
    /\ callsAtAbort' = Len(calls)
    /\ UNCHANGED <<pc, streamOpt, payload, sent, decoder, buffer, aggregatedContent,
                   fullReasoningContent, lastTimings, modelEmitted, readerLocked,
                   releases, calls, outcome, rejection, exit, requestBody, status,
                   parsedLines, cuts, thrown, converter, store>>

\* The request ends in sendMessage itself, with the settlement c.
Settle(c, how) ==
    /\ pc' = "done"
    /\ calls' = c.calls
    /\ outcome' = c.outcome
    /\ rejection' = c.rejection
    /\ exit' = how
    /\ UNCHANGED <<streamOpt, payload, sent, aborted, decoder, buffer, aggregatedContent,
                   fullReasoningContent, lastTimings, modelEmitted, readerLocked,
                   releases, requestBody, parsedLines, cuts, abortedAt, callsAtAbort>>

\* fetch() resolves with a success status: lines 93, 101-122 and 178-195.
FetchResolvesOk(hasBody) ==
    /\ pc = "fetch"
    /\ status' = "200"
    /\ IF Truthy(streamOpt)
       THEN IF hasBody
            THEN /\ Assign(LoopTop([Running(StreamState(0)) EXCEPT !.readerLocked = TRUE]))
                 /\ UNCHANGED <<streamOpt, payload, sent, requestBody, thrown, converter, store>>
            ELSE /\ Settle(SendMessageCatch(calls, NoBodyError), "noBody")
                 /\ thrown' = Some(NoBodyError)
                 /\ UNCHANGED <<converter, store>>
       ELSE /\ pc' = "body"
            /\ UNCHANGED <<streamOpt, payload, sent, aborted, decoder, buffer,
                           aggregatedContent, fullReasoningContent, lastTimings,
                           modelEmitted, readerLocked, releases, calls, outcome,
                           rejection, exit, requestBody, parsedLines, cuts, abortedAt,
                           callsAtAbort, thrown, converter, store>>

\* fetch() resolves with a failure status: parseErrorResponse awaits the body.
FetchResolvesNotOk(st) ==
    /\ pc = "fetch"
    /\ status' = st
    /\ pc' = "errorBody"
    /\ UNCHANGED <<streamOpt, payload, sent, aborted, decoder, buffer, aggregatedContent,
                   fullReasoningContent, lastTimings, modelEmitted, readerLocked,
                   releases, calls, outcome, rejection, exit, requestBody, parsedLines, cuts,
                   abortedAt, callsAtAbort, thrown, converter, store>>

\* fetch() rejects: with a connection failure, or, once the signal is aborted,
\* with an AbortError.
FetchRejects(error) ==
    /\ pc = "fetch"
    /\ error = AbortError <=> aborted
    /\ Settle(SendMessageCatch(calls, error),
              IF error = AbortError THEN "fetchAborted" ELSE "fetchError")
    /\ thrown' = Some(error)
    /\ UNCHANGED <<status, converter, store>>

\* Lines 94-99: the error body has been read (or could not be); the error
\* callback, the throw, and the catch block of sendMessage.
ErrorBodyRead(body) ==
    /\ pc = "errorBody"
    /\ LET error == parseErrorResponse(status, body)
       IN  /\ Settle(SendMessageCatch(Append(calls, OnError(error)), error), "httpError")
           /\ thrown' = Some(error)
    /\ UNCHANGED <<status, converter, store>>

\* reader.read() resolves with the next n bytes.
ReadResolves(n, abortIn) ==
    /\ pc = "read"
    /\ sent + n <= Len(payload)
    /\ sent' = sent + n
    /\ Assign(ChunkRead(SubSeq(payload, sent + 1, sent + n), abortIn))
    /\ UNCHANGED <<streamOpt, payload, requestBody, status, thrown, converter, store>>

\* reader.read() resolves with done: the stream is exhausted.
ReadDone ==
    /\ pc = "read"
    /\ sent = Len(payload)
    /\ Assign(AfterLoop(Running(BreakAtDone(StreamState(0), buffer))))
    /\ UNCHANGED <<streamOpt, payload, sent, requestBody, status, thrown, converter, store>>

\* reader.read() rejects: with a connection failure, or, once the signal is
\* aborted, with the AbortError the body is errored with.
ReadRejects(error) ==
    /\ pc = "read"
    /\ error = AbortError <=> aborted
    /\ Assign(StreamThrows(Running(StreamState(0)), error,
                           IF error = AbortError THEN "readAborted" ELSE "readError"))
    /\ thrown' = Some(error)
    /\ UNCHANGED <<streamOpt, payload, sent, requestBody, status, converter, store>>

\* response.text() of a non-streaming response resolves.
BodyResolves ==
    /\ pc = "body"
    /\ sent' = Len(payload)
    /\ LET r == NonStreamBody(calls, DecodeAll(payload))
       IN  /\ pc' = "done"
           /\ calls' = r.calls
           /\ outcome' = r.outcome
           /\ rejection' = r.rejection
           /\ exit' = r.exit
           /\ thrown' = IF r.exit = "noContent" THEN Some(NoResponseError)
                        ELSE IF r.exit = "bodyParseError" THEN Some(SyntaxError)
                        ELSE None
    /\ UNCHANGED <<streamOpt, payload, aborted, decoder, buffer, aggregatedContent,
                   fullReasoningContent, lastTimings, modelEmitted, readerLocked,
                   releases, requestBody, status, parsedLines, cuts, abortedAt, callsAtAbort,
                   converter, store>>

\* response.text() of a non-streaming response rejects, as a read does.
BodyRejects(error) ==
    /\ pc = "body"
    /\ error = AbortError <=> aborted
    /\ Settle(NonStreamThrows(calls, error,
                              IF error = AbortError THEN "bodyAborted" ELSE "bodyError"),
              IF error = AbortError THEN "bodyAborted" ELSE "bodyError")
    /\ thrown' = Some(error)
    /\ UNCHANGED <<status, converter, store>>

Next ==
    \/ Abort
    \/ \E hasBody \in BOOLEAN : FetchResolvesOk(hasBody)
    \/ \E st \in {"400", "500"} : FetchResolvesNotOk(st)
    \/ \E error \in FetchFailures \cup {AbortError} : FetchRejects(error)
    \/ \E body \in ErrorBodies : ErrorBodyRead(body)
    \/ \E n \in 1..Len(payload), abortIn \in 0..MaxAbortIn : ReadResolves(n, abortIn)
    \/ ReadDone
    \/ \E error \in ReadFailures \cup {AbortError} : ReadRejects(error)
    \/ BodyResolves
    \/ \E error \in ReadFailures \cup {AbortError} : BodyRejects(error)

Spec == Init /\ [][Next]_vars

\* ================================================================ the converters
\* The pure functions of the service, each applied once to an argument drawn
\* from its input set; no request is under way.
NoRequest ==
    /\ pc = "done"
    /\ streamOpt = "undefined"
    /\ payload = <<>>
    /\ sent = 0
    /\ aborted = FALSE
    /\ decoder = <<>>
    /\ buffer = <<>>
    /\ aggregatedContent = <<>>
    /\ fullReasoningContent = <<>>
    /\ lastTimings = None
    /\ modelEmitted = FALSE
    /\ readerLocked = FALSE
    /\ releases = 0
    /\ calls = <<>>
    /\ outcome = "pending"
    /\ rejection = None
    /\ exit = ""
    /\ requestBody = EmptyObject
    /\ status = ""
    /\ parsedLines = <<>>
    /\ cuts = {}
    /\ abortedAt = ""
    /\ callsAtAbort = 0
    /\ thrown = None

request == <<pc, streamOpt, payload, sent, aborted, decoder, buffer, aggregatedContent,
             fullReasoningContent, lastTimings, modelEmitted, readerLocked, releases,
             calls, outcome, rejection, exit, requestBody, status, parsedLines,
             cuts, abortedAt, callsAtAbort, thrown>>

\* The token counts a usage field may hold.
TokenCounts == {None, Some(0), Some(2), Some(5), Some(10)}

Usages ==
    { Usage(inTok, outTok, details) :
          inTok \in TokenCounts, outTok \in TokenCounts,
          details \in {None} \cup {Some([cached_tokens |-> c]) : c \in TokenCounts} }

\* An error response: its status and what its body holds.
ErrorResponse(st, body) == [status |-> st, body |-> body]

ErrorResponses == {ErrorResponse(st, body) : st \in {"400", "500"}, body \in ErrorBodies}

InitConverters ==
    /\ NoRequest
    /\ NewStore
    /\ result = None
    /\ \/ fn = "convertMessagesToInput" /\ args \in Conversations
       \/ fn = "convertUsageToTimings" /\ args \in Usages
       \/ fn = "parseErrorResponse" /\ args \in ErrorResponses
       \/ fn = "requestBody" /\ args \in OptionsSet

Returns(value) ==
    /\ result = None
    /\ result' = Some(value)
    /\ UNCHANGED <<fn, args, request, store>>

ConvertMessages ==
    /\ fn = "convertMessagesToInput"
    /\ Returns(convertMessagesToInput(args))

ConvertUsage ==
    /\ fn = "convertUsageToTimings"
    /\ Returns(convertUsageToTimings(args))

ParseError ==
    /\ fn = "parseErrorResponse"
    /\ Returns(parseErrorResponse(args.status, args.body))

BuildBody ==
    /\ fn = "requestBody"
    /\ Returns(BuildRequestBody(RequestMessages, args))

NextConverters ==
    \/ ConvertMessages
    \/ ConvertUsage
    \/ ParseError
    \/ BuildBody

SpecConverters == InitConverters /\ [][NextConverters]_vars

\* ================================================================ the server store
\* The calls of serverStore.fetch() and serverStore.clear() and the
\* settlements of the PropsService.fetch() requests, in any order.  A request
\* is [state, clears, promise]: "pending", "resolved" or "rejected" for
\* PropsService.fetch(), the number of clear() calls before it was issued, and
\* "pending", "fulfilled" or "rejected" for the promise of lines 164-177.  A fetch() call is [request, issued]:
\* the request whose promise it returns, and whether the call issued it; its
\* promise settles when that request's promise does, and never rejects,
\* because the catch block of lines 170-172 does not rethrow.
InitStore ==
    /\ NoRequest
    /\ NewStore
    /\ fn = "serverStore"
    /\ args = <<>>
    /\ result = None

\* serverStore.fetch() is called: lines 60, 160-166 and 179-180, up to the
\* awaits.
FetchCalled ==
    /\ Len(fetchCalls) < MaxFetchCalls
    /\ IF IssuesRequest(serverStore)
       THEN /\ propsRequests' = Append(propsRequests, [state |-> "pending", clears |-> clears,
                                           promise |-> "pending"])
            /\ serverStore' = RequestIssued(serverStore, Len(propsRequests) + 1)
            /\ fetchCalls' = Append(fetchCalls,
                                    [request |-> Len(propsRequests) + 1, issued |-> TRUE])
       ELSE /\ fetchCalls' = Append(fetchCalls,
                                    [request |-> serverStore.fetchPromise[1], issued |-> FALSE])
            /\ UNCHANGED <<serverStore, propsRequests>>
    /\ UNCHANGED <<clears, request, converter>>

\* PropsService.fetch() of the request id resolves with props.
PropsResolves(id, props) ==
    /\ id \in 1..Len(propsRequests)
    /\ propsRequests[id].state = "pending"
    /\ propsRequests' = [propsRequests EXCEPT ![id].state = "resolved",
                                               ![id].promise = "fulfilled"]
    /\ serverStore' = PropsFetched(serverStore, props)
    /\ UNCHANGED <<fetchCalls, clears, request, converter>>

\* PropsService.fetch() of the request id rejects with error.
PropsRejects(id, error) ==
    /\ id \in 1..Len(propsRequests)
    /\ propsRequests[id].state = "pending"
    /\ propsRequests' = [propsRequests EXCEPT ![id].state = "rejected",
                                               ![id].promise = Caught(error)]
    /\ serverStore' = PropsFailed(serverStore, error)
    /\ UNCHANGED <<fetchCalls, clears, request, converter>>

\* serverStore.clear() is called.
Clear ==
    /\ clears < MaxClears
    /\ clears' = clears + 1
    /\ serverStore' = Cleared(serverStore)
    /\ UNCHANGED <<propsRequests, fetchCalls, request, converter>>

NextStore ==
    \/ FetchCalled
    \/ \E id \in 1..Len(propsRequests), props \in PropsValues : PropsResolves(id, props)
    \/ \E id \in 1..Len(propsRequests), error \in PropsFailures : PropsRejects(id, error)
    \/ Clear

SpecStore == InitStore /\ [][NextStore]_vars

\* Every PropsService.fetch() request settles: its promise is resolved or
\* rejected in the end.
FairStore ==
    \A id \in 1..MaxFetchCalls :
        WF_vars((\E props \in PropsValues : PropsResolves(id, props))
                \/ (\E error \in PropsFailures : PropsRejects(id, error)))

SpecStoreFair == SpecStore /\ FairStore

\* ================================================================ properties
\* The callbacks of `cs` with the name cb, in order.
CallsOf(cs, cb) == LET Is(c) == c.cb = cb IN SelectSeq(cs, Is)

\* The callbacks of a request whose whole body arrives as the complete
\* lines `lines`, with no cancellation: the line loop, then the completion.
FreshState ==
    [aggregatedContent |-> <<>>, fullReasoningContent |-> <<>>, lastTimings |-> None,
     modelEmitted |-> FALSE, aborted |-> FALSE, calls |-> <<>>, parsedLines |-> <<>>,
     abortedAt |-> "", callsAtAbort |-> 0, cbCount |-> 0, abortIn |-> 0, thrown |-> None]

CallsOfLines(lines) ==
    LET st == ProcessLines(FreshState, lines)
    IN  Append(st.calls,
               OnComplete(st.aggregatedContent, st.fullReasoningContent, st.lastTimings))

\* The callbacks when `bytes` arrive in one unsplit read.
OneRead(bytes) ==
    LET segments == Split(Decode(<<>>, bytes).text)
    IN  CallsOfLines(SubSeq(segments, 1, Len(segments) - 1))

\* The text received so far and its newline-terminated lines.
ReceivedText == Decode(<<>>, SubSeq(payload, 1, sent)).text
ReceivedSegments == Split(ReceivedText)
ReceivedLines == SubSeq(ReceivedSegments, 1, Len(ReceivedSegments) - 1)

IsPrefix(s, t) == Len(s) <= Len(t) /\ s = SubSeq(t, 1, Len(s))

\* The stream was read to its end with no cancellation.
StreamCompleted == pc = "done" /\ exit = "complete"

\* handleStreamResponse acquired a reader and has exited.
StreamExits == {"complete", "cancelled", "readError", "readAborted", "loopError"}

\* The request ended because it was cancelled.
CancelExits == {"fetchAborted", "readAborted", "bodyAborted", "cancelled"}

\* C1: chunk-boundary invariance.  However the payload was split into reads,
\* a stream read to its end without cancellation has invoked exactly the
\* callbacks, with the same arguments and the same final text, as one unsplit
\* read of the payload.
C1_ChunkBoundaryInvariance == StreamCompleted => calls = OneRead(payload)

\* C1 witness: a completed stream whose reads cut a character, a JSON payload
\* and a line in two, and that delivered deltas.
C1_Witness ==
    /\ StreamCompleted
    /\ cuts = {"char", "payload", "line"}
    /\ Len(CallsOf(calls, "onChunk")) >= 2
    /\ calls = OneRead(payload)

\* C2: no line is handled before its newline has been received.  The lines
\* handed to the line loop are, position by position, newline-terminated
\* lines of the text received so far (so a payload cut by a chunk boundary is
\* handled once, whole), and after every read that was processed the buffer
\* is the text after the last newline and every complete line was handled.
C2_OnlyCompleteLines ==
    /\ IsPrefix(parsedLines, ReceivedLines)
    /\ (pc = "read" =>
            /\ buffer = ReceivedSegments[Len(ReceivedSegments)]
            /\ parsedLines = ReceivedLines)

\* C2 witness: a chunk boundary fell inside a JSON payload, the rest of the
\* line arrived later, and its delta was delivered.
C2_Witness ==
    /\ pc = "read"
    /\ "payload" \in cuts
    /\ buffer = <<>>
    /\ Len(parsedLines) >= 2
    /\ Len(CallsOf(calls, "onChunk")) >= 1

\* C3 (as claimed): a request that ends because it was cancelled -- fetch
\* rejected with the AbortError, a pending chunk read rejected with it, the
\* body read of a non-streaming response rejected with it, or a cancellation
\* check saw the signal -- has invoked no error callback and has resolved.
C3_CancellationNeverAnError ==
    (pc = "done" /\ exit \in CancelExits) =>
        /\ CallsOf(calls, "onError") = <<>>
        /\ outcome = "resolved"

\* C4 (as claimed): once the signal is aborted during handleStreamResponse,
\* at a pending read or from inside a callback, no further callback is
\* invoked and the request does not fail.
C4_NoCallbackAfterAbort ==
    abortedAt \in {"read", "callback"} =>
        /\ Len(calls) = callsAtAbort
        /\ outcome # "rejected"

\* C5 (as claimed): a request cancelled before any byte of the body was
\* delivered resolves, and no callback at all has been invoked.
C5_CancelBeforeBytes ==
    (pc = "done" /\ exit \in {"fetchAborted", "readAborted", "cancelled"} /\ sent = 0) =>
        /\ outcome = "resolved"
        /\ calls = <<>>

\* The model values the events of the lines carry, in the order the parser
\* looks at them: the top-level model of any event, then, on a completed or
\* done event, the model of its response (of the event itself if it has no
\* response object).
ModelsOfLine(line) ==
    IF ~StartsWith(line, DataPrefix) \/ JSONparse(Slice(line, Len(DataPrefix))) = None
    THEN <<>>
    ELSE LET ev == JSONparse(Slice(line, Len(DataPrefix)))[1]
             top == IF ev.model # "" THEN <<ev.model>> ELSE <<>>
             final == IF ev.type \in {Completed, Done}
                      THEN (IF ev.response # None THEN ev.response[1].model ELSE ev.model)
                      ELSE ""
         IN  top \o (IF final # "" THEN <<final>> ELSE <<>>)

RECURSIVE ModelsOfLines(_)
ModelsOfLines(lines) ==
    IF lines = <<>> THEN <<>> ELSE ModelsOfLine(Head(lines)) \o ModelsOfLines(Tail(lines))

\* C6: the model callback fires at most once per request, and in a streaming
\* request it fires with the first model value of the events handled,
\* however many of them carry one.
C6_ModelAtMostOnce ==
    /\ Len(CallsOf(calls, "onModel")) <= 1
    /\ Truthy(streamOpt) =>
          CallsOf(calls, "onModel") =
              (IF ModelsOfLines(parsedLines) = <<>> THEN <<>>
               ELSE <<OnModel(Head(ModelsOfLines(parsedLines)))>>)

\* C6 witness: three model values were seen, on a delta event and on a done
\* event, and the callback fired once.
C6_Witness ==
    /\ StreamCompleted
    /\ Len(ModelsOfLines(parsedLines)) >= 3
    /\ CallsOf(calls, "onModel") = <<OnModel("model-m")>>

\* A data line whose payload is neither [DONE] nor parseable JSON.
IsMalformedData(line) ==
    /\ StartsWith(line, DataPrefix)
    /\ Slice(line, Len(DataPrefix)) # DoneMarker
    /\ JSONparse(Slice(line, Len(DataPrefix))) = None

IsWellFormed(line) == ~IsMalformedData(line)

PayloadLines ==
    LET segments == Split(DecodeAll(payload))
    IN  SubSeq(segments, 1, Len(segments) - 1)

\* C7: a malformed data line never terminates the stream.  A streaming
\* request that was not cancelled and whose reads did not fail ends with the
\* stream complete, sendMessage resolved, no error callback, and exactly the
\* callbacks of the same stream with its malformed data lines taken out.
C7_MalformedLineSkipped ==
    (pc = "done" /\ exit \in StreamExits /\ abortedAt = "" /\ exit # "readError") =>
        /\ exit = "complete"
        /\ outcome = "resolved"
        /\ CallsOf(calls, "onError") = <<>>
        /\ calls = CallsOfLines(SelectSeq(PayloadLines, IsWellFormed))

\* C7 witness: a completed stream with a malformed data line between two
\* delta events, both deltas delivered in order.
C7_Witness ==
    /\ StreamCompleted
    /\ \E i \in 2..(Len(PayloadLines) - 1) :
          /\ IsMalformedData(PayloadLines[i])
          /\ PayloadLines[i - 1] = Decode(<<>>, DataLine(<<"{", "T", "a", "}">>)).text
          /\ PayloadLines[i + 1] = Decode(<<>>, DataLine(<<"{", "T", TwoByteChar, "b", "}">>)).text
    /\ CallsOf(calls, "onChunk") = <<OnChunk(<<"a">>), OnChunk(<<TwoByteChar, "b">>)>>

\* C8 (as claimed): an HTTP failure status, a rejected fetch and a failed
\* stream read each reach the error callback exactly once, and sendMessage
\* rejects with that error.
C8_FailureSurfacedOnce ==
    (pc = "done" /\ exit \in {"httpError", "fetchError", "readError"}) =>
        /\ Len(CallsOf(calls, "onError")) = 1
        /\ outcome = "rejected"
        /\ rejection = CallsOf(calls, "onError")[1].error

\* The timings of the completed and done events of the lines that carry a
\* usage object, in order.
TimingsOfLine(line) ==
    IF ~StartsWith(line, DataPrefix) \/ JSONparse(Slice(line, Len(DataPrefix))) = None
    THEN <<>>
    ELSE LET ev == JSONparse(Slice(line, Len(DataPrefix)))[1]
             usage == IF ev.response # None THEN ev.response[1].usage ELSE ev.usage
         IN  IF ev.type \in {Completed, Done} /\ usage # None
             THEN <<convertUsageToTimings(usage[1])>> ELSE <<>>

RECURSIVE TimingsOfLines(_)
TimingsOfLines(lines) ==
    IF lines = <<>> THEN <<>> ELSE TimingsOfLine(Head(lines)) \o TimingsOfLines(Tail(lines))

RECURSIVE TextOfCalls(_)
TextOfCalls(cs) == IF cs = <<>> THEN <<>> ELSE Head(cs).text \o TextOfCalls(Tail(cs))

\* C9: when the stream is exhausted without cancellation the completion
\* callback is invoked exactly once, as the last callback, with the
\* concatenation of the deltas delivered to the chunk callback, the
\* concatenation of the reasoning deltas (undefined if empty), and the
\* timings of the last completed or done event that carried usage (undefined
\* if none did).
C9_CompletionOnce ==
    StreamCompleted =>
        LET text == TextOfCalls(CallsOf(calls, "onChunk"))
            reasoning == TextOfCalls(CallsOf(calls, "onReasoningChunk"))
            timings == TimingsOfLines(PayloadLines)
        IN  /\ Len(CallsOf(calls, "onComplete")) = 1
            /\ calls[Len(calls)].cb = "onComplete"
            /\ calls[Len(calls)].text = text
            /\ calls[Len(calls)].reasoning = (IF reasoning = <<>> THEN None ELSE Some(reasoning))
            /\ calls[Len(calls)].timings =
                   (IF timings = <<>> THEN None ELSE Some(timings[Len(timings)]))

\* C9 witness: a completed stream with two text deltas, reasoning and usage.
C9_Witness ==
    /\ StreamCompleted
    /\ Len(CallsOf(calls, "onChunk")) >= 2
    /\ calls[Len(calls)].text = <<"a", TwoByteChar, "b">>
    /\ calls[Len(calls)].timings = Some([prompt_n |-> 10, predicted_n |-> 5, cache_n |-> 2])
    /\ cuts # {}

\* C10: the reader is released exactly once on every exit path.  While a read
\* is awaited the reader is locked and was never released; once the request
\* is over the lock is not held, and releaseLock was called once if
\* handleStreamResponse had acquired the reader (and never otherwise).
C10_ReaderReleasedOnce ==
    /\ pc = "read" => (readerLocked /\ releases = 0)
    /\ pc = "done" => (~readerLocked /\ releases = IF exit \in StreamExits THEN 1 ELSE 0)
    /\ pc \notin {"read", "done"} => (~readerLocked /\ releases = 0)

\* C10 witness: a read failed in mid-stream and the reader was released.
C10_Witness ==
    /\ pc = "done"
    /\ exit = "readError"
    /\ sent > 0
    /\ releases = 1
    /\ ~readerLocked

\* The exits of handleNonStreamResponse.
NonStreamExits == {"bodyAborted", "bodyError", "bodyParseError", "noContent", "bodyComplete"}

\* C11 (as claimed): the stream flag defaults to true and the response handling
\* follows it.  When the caller omits options.stream, the request body carries
\* stream = true and a success response is consumed by the streaming handler:
\* the request never waits for response.text() and never ends in the
\* non-streaming handler.
C11_DefaultStreamHandled ==
    streamOpt = "undefined" =>
        /\ requestBody.stream = TRUE
        /\ pc # "body"
        /\ exit \notin NonStreamExits

\* response.text() of a non-streaming success response resolved and the
\* request is over.
NonStreamHandled ==
    /\ pc = "done"
    /\ status = "200"
    /\ exit \in NonStreamExits \ {"bodyAborted", "bodyError"}

BlankText(text) == \A i \in 1..Len(text) : text[i] \in {" ", "\n"}

\* The output of the body has a message item with an output_text content
\* whose text is not empty.
HasMessageText(value) ==
    /\ value.output # None
    /\ \E i \in 1..Len(value.output[1]) :
          /\ value.output[1][i].type = "message"
          /\ \E j \in 1..Len(value.output[1][i].content) :
                /\ value.output[1][i].content[j].type = "output_text"
                /\ value.output[1][i].content[j].text # <<>>

\* The body text is blank, or JSON without such a message item.
NoContentBody(text) ==
    \/ BlankText(text)
    \/ \E d \in BodyDocs : d.text = text /\ ~HasMessageText(d.value)

\* C12: a non-streaming success response whose body is blank, or whose output
\* has no message item with non-empty output_text content, fails the request
\* with the no-content error: sendMessage rejects with it, the error callback
\* is invoked exactly once (with it), and the completion callback is not
\* invoked.
C12_NoContentFailsOnce ==
    (NonStreamHandled /\ NoContentBody(DecodeAll(payload))) =>
        /\ outcome = "rejected"
        /\ rejection = Some(NoResponseError)
        /\ CallsOf(calls, "onError") = <<OnError(NoResponseError)>>
        /\ CallsOf(calls, "onComplete") = <<>>

\* C12 witness: a JSON body with a model and a reasoning item but no message
\* item was handled: the model was reported, then the error.
C12_Witness ==
    /\ NonStreamHandled
    /\ DecodeAll(payload) = <<"{", "O", "r", "}">>
    /\ calls = <<OnModel("model-m"), OnError(NoResponseError)>>
    /\ outcome = "rejected"

\* ---------------------------------------------------------------- the converters
\* The converter `name` has returned; its value is result[1].
Returned(name) == fn = name /\ result # None

\* C13: for every input sequence, convertMessagesToInput returns at most as
\* many messages as it was given, and no returned message has the role
\* developer together with a bare-string content that is empty or only
\* whitespace.
C13_NoBlankDeveloperMessage ==
    Returned("convertMessagesToInput") =>
        /\ Len(result[1]) <= Len(args)
        /\ \A i \in 1..Len(result[1]) :
              ~(result[1][i].role = "developer" /\ result[1][i].isString
                /\ BlankText(result[1][i].text))

\* C13 witness: of a blank system message and a system message that has only
\* an image, the first is dropped and the second is kept as a developer
\* message with parts.
C13_Witness ==
    /\ Returned("convertMessagesToInput")
    /\ args = <<DbMessage("system", <<" ", "\n">>, FALSE, <<>>),
                DbMessage("system", <<>>, TRUE, <<ImageExtra>>)>>
    /\ Len(result[1]) = 1
    /\ result[1][1].role = "developer"
    /\ ~result[1][1].isString

\* The number of attachments of a conversation record.
Attachments(msg) == IF msg.hasExtra THEN Len(msg.extra) ELSE 0

\* The messages of a conversation that reach the wire: all but the system
\* and developer messages whose content is a blank bare string.
Converted(messages) ==
    LET Blank(msg) ==
            /\ msg.role \in {"system", "developer"}
            /\ IF msg.isDb THEN Attachments(msg) = 0 ELSE msg.isString
            /\ BlankText(msg.content)
        Reaches(msg) == ~Blank(msg)
    IN  SelectSeq(messages, Reaches)

\* C14: for every conversation record converted by convertMessagesToInput, the
\* wire content is a bare string if and only if the record has zero
\* attachments; a record with one or more attachments always yields the
\* sequence of parts, even when its own text is empty.
C14_BareStringIffNoAttachment ==
    Returned("convertMessagesToInput") =>
        /\ Len(result[1]) = Len(Converted(args))
        /\ \A i \in 1..Len(result[1]) :
              Converted(args)[i].isDb =>
                  (result[1][i].isString <=> Attachments(Converted(args)[i]) = 0)

\* C14 witness: a record with an empty attachment list became a bare string,
\* a record with an image and no text became parts.
C14_Witness ==
    /\ Returned("convertMessagesToInput")
    /\ args = <<DbMessage("user", <<>>, TRUE, <<>>), DbMessage("user", <<>>, TRUE, <<ImageExtra>>)>>
    /\ Len(result[1]) = 2
    /\ result[1][1].isString
    /\ ~result[1][2].isString
    /\ Len(result[1][2].parts) = 1

\* The parts `parts` are what the claim allows for the attachment `extra`: at
\* least one part; for a PDF one input_image per page image, or else exactly
\* one input_text; for the other types one part of the type's kind.
PartsAllowedFor(extra, parts) ==
    /\ Len(parts) >= 1
    /\ IF extra.type = "PDF"
       THEN \/ /\ extra.images # None
                /\ Len(parts) = Len(extra.images[1])
                /\ \A i \in 1..Len(parts) :
                      parts[i].type = "input_image" /\ parts[i].image_url = extra.images[1][i]
            \/ Len(parts) = 1 /\ parts[1].type = "input_text"
       ELSE /\ Len(parts) = 1
            /\ parts[1].type = (IF extra.type = "IMAGE" THEN "input_image"
                                ELSE IF extra.type = "AUDIO" THEN "input_audio"
                                ELSE "input_text")

\* `parts` splits into one allowed run of parts per attachment, in order.
RECURSIVE PartsFollow(_, _)
PartsFollow(parts, extras) ==
    IF extras = <<>> THEN parts = <<>>
    ELSE \E n \in 1..Len(parts) :
             /\ PartsAllowedFor(Head(extras), SubSeq(parts, 1, n))
             /\ PartsFollow(SubSeq(parts, n + 1, Len(parts)), Tail(extras))

\* C15 (as claimed): for a record with attachments the wire parts are one
\* input_text part for the record's own text if it is non-empty, followed, for
\* each attachment in original order, by one or more parts for it; a PDF
\* yields one input_image part per pre-rendered page image or else exactly
\* one input_text part, so no attachment contributes zero parts.
C15_EveryAttachmentHasParts ==
    Returned("convertMessagesToInput") =>
        /\ Len(result[1]) = Len(Converted(args))
        /\ \A i \in 1..Len(result[1]) :
              LET msg == Converted(args)[i]
                  parts == result[1][i].parts
                  own == IF msg.content # <<>> THEN 1 ELSE 0
              IN  (msg.isDb /\ Attachments(msg) > 0) =>
                      /\ Len(parts) >= own
                      /\ own = 1 => (parts[1].type = "input_text" /\ parts[1].text = msg.content)
                      /\ PartsFollow(SubSeq(parts, own + 1, Len(parts)), msg.extra)

\* The audio attachments of a record and the input_audio parts of its wire
\* message.
AudioExtras(msg) == LET IsAudio(e) == e.type = "AUDIO" IN SelectSeq(msg.extra, IsAudio)
AudioParts(wire) == LET IsAudio(p) == p.type = "input_audio" IN SelectSeq(wire.parts, IsAudio)

\* C16 (as claimed): converting a record with an audio attachment yields an
\* input_audio part whose format is "wav" when the MIME type is "audio/wav",
\* and "mp3" for any other MIME type.
C16_WavOnlyForAudioWav ==
    Returned("convertMessagesToInput") =>
        /\ Len(result[1]) = Len(Converted(args))
        /\ \A i \in 1..Len(result[1]) :
              Converted(args)[i].isDb =>
                  /\ Len(AudioParts(result[1][i])) = Len(AudioExtras(Converted(args)[i]))
                  /\ \A j \in 1..Len(AudioParts(result[1][i])) :
                        AudioParts(result[1][i])[j].format =
                            (IF AudioExtras(Converted(args)[i])[j].mimeType = WavMime
                             THEN "wav" ELSE "mp3")

\* The MIME type has the letters w, a, v in a row.
ContainsWav(mimeType) ==
    \E k \in 1..(Len(mimeType) - 2) :
        mimeType[k] = "w" /\ mimeType[k + 1] = "a" /\ mimeType[k + 2] = "v"

\* C16 (amended): converting a record with an audio attachment yields one
\* input_audio part per audio attachment, carrying its data, whose format is
\* "wav" when the MIME type contains "wav" ("audio/wav", "audio/x-wav") and
\* "mp3" for every MIME type that does not.
C16_WavIffMimeContainsWav ==
    Returned("convertMessagesToInput") =>
        /\ Len(result[1]) = Len(Converted(args))
        /\ \A i \in 1..Len(result[1]) :
              Converted(args)[i].isDb =>
                  /\ Len(AudioParts(result[1][i])) = Len(AudioExtras(Converted(args)[i]))
                  /\ \A j \in 1..Len(AudioParts(result[1][i])) :
                        /\ AudioParts(result[1][i])[j].data =
                               AudioExtras(Converted(args)[i])[j].base64Data
                        /\ AudioParts(result[1][i])[j].format =
                               (IF ContainsWav(AudioExtras(Converted(args)[i])[j].mimeType)
                                THEN "wav" ELSE "mp3")

\* C16 witness: "audio/wav" and "audio/x-wav" both became wav, and in another
\* record "audio/mpeg" and "audio/ogg" both became mp3.
C16_Witness ==
    /\ Returned("convertMessagesToInput")
    /\ args = <<DbMessage("user", <<>>, TRUE, <<AudioExtra(WavMime), AudioExtra(XWavMime)>>),
                DbMessage("user", <<"h", "i">>, TRUE, <<AudioExtra(MpegMime), AudioExtra(OggMime)>>)>>
    /\ Len(result[1]) = 2
    /\ [j \in 1..2 |-> result[1][1].parts[j].format] = <<"wav", "wav">>
    /\ [j \in 1..2 |-> result[1][2].parts[j + 1].format] = <<"mp3", "mp3">>

\* A field of a usage object, 0 when it is missing.
FieldOrZero(usage, field) == IF usage[field] = <<>> THEN 0 ELSE usage[field][1]

\* C17: convertUsageToTimings is total: for every usage object prompt_n is
\* input_tokens, predicted_n is output_tokens and cache_n is
\* input_tokens_details.cached_tokens, each missing field (a missing
\* input_tokens_details included) counting as 0; {10, 5, cached 2} gives
\* {prompt_n: 10, predicted_n: 5, cache_n: 2}.
C17_UsageToTimingsTotal ==
    Returned("convertUsageToTimings") =>
        /\ result[1].prompt_n = FieldOrZero(args, "input_tokens")
        /\ result[1].predicted_n = FieldOrZero(args, "output_tokens")
        /\ result[1].cache_n =
               (IF args.input_tokens_details = <<>> THEN 0
                ELSE FieldOrZero(args.input_tokens_details[1], "cached_tokens"))
        /\ args = Usage(<<10>>, <<5>>, <<[cached_tokens |-> <<2>>]>>) =>
               result[1] = [prompt_n |-> 10, predicted_n |-> 5, cache_n |-> 2]

\* C17 witness: the usage of the example was converted.
C17_Witness ==
    /\ Returned("convertUsageToTimings")
    /\ args = Usage(<<10>>, <<5>>, <<[cached_tokens |-> <<2>>]>>)
    /\ result[1] = [prompt_n |-> 10, predicted_n |-> 5, cache_n |-> 2]

\* C18 (as claimed): for a non-success response parseErrorResponse always
\* produces exactly one error.  If the body is JSON with an error.message
\* field, the message is that field's value and the error is tagged as the
\* client-rejected sub-kind (ServerError) exactly when the status is 400, with
\* the generic HTTP kind otherwise; if the body is not parseable JSON, the
\* message is built from the numeric status and the status text, with the
\* generic HTTP kind.
C18_ErrorResponseParsed ==
    Returned("parseErrorResponse") =>
        /\ result[1].isError
        /\ args.body \in {"message", "empty-message"} =>
              /\ result[1].message =
                     (IF args.body = "message" THEN <<"model", "not", "found">> ELSE <<>>)
              /\ result[1].name = "ServerError" <=> args.status = "400"
              /\ result[1].name = "HttpError" <=> args.status # "400"
        /\ args.body = "not-json" =>
              /\ result[1].name = "HttpError"
              /\ result[1].message =
                     <<"Server", "error", args.status,
                       IF args.status = "400" THEN "Bad Request" ELSE "Internal Server Error">>

\* C18 (amended): parseErrorResponse always produces exactly one error.  If
\* the body is a JSON object, the error is tagged ServerError exactly when the
\* status is 400 and HttpError otherwise, and its message is the value of
\* error.message when that is a non-empty string and "Unknown server error"
\* when it is empty or missing; if the body is not parseable JSON, is JSON
\* null or cannot be read, the message is built from the numeric status and
\* the status text, with the kind HttpError.
C18_NonEmptyMessageKept ==
    Returned("parseErrorResponse") =>
        /\ result[1].isError
        /\ args.body \in {"message", "empty-message", "no-message"} =>
              /\ result[1].message =
                     (IF args.body = "message" THEN <<"model", "not", "found">>
                      ELSE <<"Unknown", "server", "error">>)
              /\ result[1].name = "ServerError" <=> args.status = "400"
              /\ result[1].name = "HttpError" <=> args.status # "400"
        /\ args.body \in {"not-json", "null", "unreadable"} =>
              /\ result[1].name = "HttpError"
              /\ result[1].message =
                     <<"Server", "error", args.status,
                       IF args.status = "400" THEN "Bad Request" ELSE "Internal Server Error">>

\* C18 witness: a 400 response with an empty error.message became a
\* ServerError with the default message.
C18_Witness ==
    /\ Returned("parseErrorResponse")
    /\ args = ErrorResponse("400", "empty-message")
    /\ result[1].name = "ServerError"
    /\ result[1].message = <<"Unknown", "server", "error">>

\* The object the caller gave as custom JSON: the object itself, or the value
\* of the string when it is JSON; no object otherwise.
CallerJSON(custom) ==
    IF custom.form = "object" THEN custom.value
    ELSE IF custom.form = "string" /\ \E d \in CustomDocs : d.text = custom.text
    THEN (CHOOSE d \in CustomDocs : d.text = custom.text).value
    ELSE EmptyObject

\* C20: caller-supplied custom JSON (a string or an object) is shallow-merged
\* into the request body after all computed fields: for every key present in
\* the custom JSON (input, stream, store, model, temperature,
\* max_output_tokens, top_p and reasoning included) the value sent in the
\* request body is the caller's value.
C20_CustomOverridesComputed ==
    Returned("requestBody") =>
        \A key \in DOMAIN CallerJSON(args.custom) :
            /\ key \in DOMAIN result[1]
            /\ result[1][key] = CallerJSON(args.custom)[key]

\* C20 witness: every option was set and the custom object overrode model,
\* temperature, max_output_tokens, top_p and reasoning; and a custom string
\* overrode the stream and store fields.
C20_Witness ==
    /\ Returned("requestBody")
    /\ args.model = "model-a"
    /\ \/ /\ args.custom.form = "object"
          /\ args.temperature = <<1>> /\ args.top_p = <<1>> /\ args.max_tokens.n = 64
          /\ ~args.disableReasoningFormat
          /\ result[1].model = "custom-model"
          /\ result[1].temperature = 9
          /\ result[1].max_output_tokens = 99
          /\ result[1].reasoning = [effort |-> "high"]
       \/ /\ args.custom.form = "string"
          /\ args.stream = "true"
          /\ result[1].stream = FALSE
          /\ result[1].store = TRUE
          /\ result[1].model = "model-a"

\* ---------------------------------------------------------------- error classification
\* The thrown value is an abort, a network failure, a timeout or an HTTP error.
Recognized(error) ==
    /\ error.isError
    /\ \/ error.name \in {"AbortError", "TypeError", "HttpError", "ServerError"}
       \/ \E i \in 1..Len(error.message) : error.message[i] \in {"ECONNREFUSED", "ETIMEDOUT"}

\* The Unknown error and its generic message.
UnknownError ==
    [name |-> "Error", message |-> <<"Unknown", "error", "occurred", "while", "sending", "message">>,
     isError |-> TRUE]

\* C19 (as claimed): a thrown value that is not recognized as an abort, a
\* network failure, a timeout or an HTTP error is reported to the caller, by
\* the error callback and by the rejection of sendMessage, as an Unknown error
\* carrying a generic message, not as the raw thrown value or with its
\* original message.
C19_UnrecognizedReportedAsUnknown ==
    (pc = "done" /\ thrown # None /\ ~Recognized(thrown[1])) =>
        /\ outcome = "rejected"
        /\ rejection = Some(UnknownError)
        /\ CallsOf(calls, "onError") # <<>>
        /\ \A i \in 1..Len(CallsOf(calls, "onError")) :
              CallsOf(calls, "onError")[i].error = Some(UnknownError)

\* ---------------------------------------------------------------- the end of the stream
\* The text of the payload after its last newline.
PayloadTail ==
    LET segments == Split(DecodeAll(payload))
    IN  segments[Len(segments)]

\* The delta of a well-formed text delta line, <<>> for any other line.
TextDeltaOfLine(line) ==
    IF ~StartsWith(line, DataPrefix) \/ JSONparse(Slice(line, Len(DataPrefix))) = None
    THEN <<>>
    ELSE LET ev == JSONparse(Slice(line, Len(DataPrefix)))[1]
         IN  IF ev.type = TextDelta THEN ev.delta ELSE <<>>

\* The non-empty text deltas of the lines, in order.
RECURSIVE TextDeltasOfLines(_)
TextDeltasOfLines(lines) ==
    IF lines = <<>> THEN <<>>
    ELSE (IF TextDeltaOfLine(Head(lines)) # <<>> THEN <<TextDeltaOfLine(Head(lines))>> ELSE <<>>)
         \o TextDeltasOfLines(Tail(lines))

RECURSIVE Flatten(_)
Flatten(texts) == IF texts = <<>> THEN <<>> ELSE Head(texts) \o Flatten(Tail(texts))

\* C21: when the stream ends, the text left in the line buffer that no
\* newline terminated is discarded without being parsed.  A last data line
\* without its newline is not handed to the parser, produces no chunk
\* callback, and its delta is absent from the text passed to the completion
\* callback: the chunks and the completion text are those of the
\* newline-terminated lines alone.
C21_UnterminatedLineDiscarded ==
    (StreamCompleted /\ PayloadTail # <<>>) =>
        /\ parsedLines = PayloadLines
        /\ [i \in 1..Len(CallsOf(calls, "onChunk")) |-> CallsOf(calls, "onChunk")[i].text]
               = TextDeltasOfLines(PayloadLines)
        /\ Len(CallsOf(calls, "onComplete")) = 1
        /\ CallsOf(calls, "onComplete")[1].text = Flatten(TextDeltasOfLines(PayloadLines))

\* C21 witness: the stream ended on a text delta line "a" that lacks its
\* newline; the only delta delivered and completed is the "c" before it.
C21_Witness ==
    /\ StreamCompleted
    /\ TextDeltaOfLine(PayloadTail) = <<"a">>
    /\ CallsOf(calls, "onChunk") = <<OnChunk(<<"c">>)>>
    /\ CallsOf(calls, "onComplete")[1].text = <<"c">>
    /\ cuts # {}

Pending == {id \in 1..Len(propsRequests) : propsRequests[id].state = "pending"}

PendingAfter == {id \in 1..Len(propsRequests') : propsRequests'[id].state = "pending"}

IssuedSinceClear == {id \in 1..Len(propsRequests) : propsRequests[id].clears = clears}

\* C24: after clear(), and until a request issued after it has settled, props,
\* role and error are null, and loading is true only while a request issued
\* after the clear is in flight; a request that was in flight when clear()
\* was called writes nothing.
C24_StaysClearedAfterClear ==
    (clears > 0 /\ IssuedSinceClear \subseteq Pending) =>
        /\ serverStore.props = None
        /\ serverStore.role = None
        /\ serverStore.error = None
        /\ serverStore.loading => IssuedSinceClear # {}

\* The fetch() call number i has been made and its promise is fulfilled.
Settled(i) == i <= Len(fetchCalls) /\ propsRequests[fetchCalls[i].request].promise = "fulfilled"

\* The request id settles in this step.
Settles(id) == propsRequests[id].state = "pending" /\ propsRequests'[id].state # "pending"

\* C25: every fetch() call settles in the end, and with a fulfilled promise;
\* the step that settles its request leaves loading = false and no promise
\* remembered, so that the next fetch() issues a request; when
\* PropsService.fetch() failed the step sets error to a message and leaves
\* props and role as they were.
C25_FetchSettles ==
    /\ \A i \in 1..MaxFetchCalls : (i <= Len(fetchCalls)) ~> Settled(i)
    /\ [][\A id \in 1..Len(propsRequests) : Settles(id) =>
            /\ propsRequests'[id].promise = "fulfilled"
            /\ ~serverStore'.loading
            /\ serverStore'.fetchPromise = None
            /\ IssuesRequest(serverStore')
            /\ propsRequests'[id].state = "rejected" =>
                  /\ serverStore'.error # None
                  /\ serverStore'.props = serverStore.props
                  /\ serverStore'.role = serverStore.role]_vars

\* A first request resolved and a second one failed: the store is idle, the
\* error is set and the props and role of the first request are still there.
C25_Witness ==
    /\ clears = 0
    /\ Len(propsRequests) = 2
    /\ propsRequests[1].state = "resolved"
    /\ propsRequests[2].state = "rejected"
    /\ \A i \in 1..Len(fetchCalls) : Settled(i)
    /\ serverStore.props # None
    /\ serverStore.role # None
    /\ serverStore.error = Some("Request timed out")
    /\ ~serverStore.loading
    /\ serverStore.fetchPromise = None
====
